---- MODULE Spec2Model ----
(***************************************************************************)
(* OnboardMate (src/onboardmate.py): a Streamlit form application.  One    *)
(* view turns an employee profile into a prompt for a hosted generation    *)
(* service, shows the returned plan, appends the profile to an Excel file  *)
(* and writes the plan to a PDF; a second view forwards a free-text query. *)
(*                                                                         *)
(* Spec      one interaction session: the script body of main() and the    *)
(*           two button handlers, stepped at every remote call and file    *)
(*           write so that faults between the steps are visible.           *)
(* SpecConc  two sessions whose save_to_excel calls interleave on the      *)
(*           same file (Streamlit runs every session on its own thread).   *)
(***************************************************************************)
EXTENDS Integers, Sequences, FiniteSets, TLC

VARIABLES
    apiKey,         \* os.environ.get("GEMINI_API_KEY", "")          (line 126)
    agent,          \* onboard_mate_agent has been constructed       (line 133)
    pc,             \* position of the session in main()
    action,         \* the button whose handler is running / ran last
    banner,         \* the last st.error / st.warning / st.success / st.markdown
    form,           \* the values of the six widgets of the plan form
    employee_data,  \* the dict built at lines 152-159
    query,          \* the text of the knowledge_query widget        (line 208)
    outcome,        \* what the remote service did with the last message
    result,         \* what the agent method returned or raised
    fault,          \* the call of main() an exception escaped from
    store,          \* onboarding_data.xlsx
    pdf,            \* onboarding_plan.pdf
    download,       \* the file handed to st.download_button  (lines 172-178)
    writes,         \* number of df.to_excel / pdf.output calls that completed
    calls,          \* number of chat.send_message calls issued
    presses,        \* number of button presses so far
    pre,            \* store, writes and calls as they were at the last press
    th              \* SpecConc: the locals of each thread inside save_to_excel

vars == <<apiKey, agent, pc, action, banner, form, employee_data, query,
          outcome, result, fault, store, pdf, download, writes, calls, presses,
          pre, th>>

\* What a thread inside save_to_excel leaves alone.
session == <<apiKey, agent, pc, action, banner, form, employee_data, query,
             outcome, result, fault, pdf, download, writes, calls, presses, pre>>

-----------------------------------------------------------------------------
(* Bounds of the model. *)

MaxPresses == 2     \* button presses in one behaviour
MaxTextLen == 2     \* characters of a response text

-----------------------------------------------------------------------------
(* Python values. *)

PyNone == [type |-> "NoneType", v |-> <<>>]
PyStr(t) == [type |-> "str", v |-> t]

\* bool(v): None and the empty string are falsy, other strings are truthy.
Truthy(v) == v.type = "str" /\ v.v # <<>>

\* bool(start_date): st.date_input without a value argument returns today's
\* date when the user picks nothing, and a datetime.date is always truthy.
DateTruthy(d) == TRUE

Whitespace == {" ", "\n"}

LStrip(s) ==
    LET F[i \in 1..(Len(s) + 1)] ==
            IF i > Len(s) THEN <<>>
            ELSE IF s[i] \in Whitespace THEN F[i + 1]
            ELSE SubSeq(s, i, Len(s))
    IN F[1]

RStrip(s) ==
    LET F[i \in 0..Len(s)] ==
            IF i = 0 THEN <<>>
            ELSE IF s[i] \in Whitespace THEN F[i - 1]
            ELSE SubSeq(s, 1, i)
    IN F[Len(s)]

\* str.strip()
Strip(s) == RStrip(LStrip(s))

\* content.split("\n"): one piece more than there are separators; "" gives [""].
RECURSIVE Split(_)
Split(s) ==
    LET idx == {i \in 1..Len(s) : s[i] = "\n"}
    IN IF idx = {} THEN <<s>>
       ELSE LET i == CHOOSE k \in idx : \A j \in idx : k <= j
            IN <<SubSeq(s, 1, i - 1)>> \o Split(SubSeq(s, i + 1, Len(s)))

Pad2(n) == IF n < 10 THEN "0" \o ToString(n) ELSE ToString(n)

\* start_date.strftime("%Y-%m-%d")
Strftime(d) == ToString(d.year) \o "-" \o Pad2(d.month) \o "-" \o Pad2(d.day)

-----------------------------------------------------------------------------
(* Inputs. *)

\* What the six widgets of the plan form can hold when the button is pressed.
Widgets(n, r, dp, d, e, g) ==
    [name |-> n, role |-> r, department |-> dp, start_date |-> d,
     previous_experience |-> e, goals |-> g]

Today == [year |-> 2024, month |-> 3, day |-> 1]

FormInputs ==
    { Widgets(<<>>, <<>>, <<>>, Today, <<>>, <<>>),
      Widgets(<<" ">>, <<>>, <<" ">>, Today, <<>>, <<"\n">>),
      Widgets(<<"J">>, <<>>, <<>>, Today, <<>>, <<>>),
      Widgets(<<"J">>, <<"E">>, <<"R">>, Today, <<"3">>, <<"s">>) }

Queries == { <<>>, <<" ">>, <<" ", "\n">>, <<"q">>, <<" ", "q">> }

TextsOfLen(n) == [1..n -> {"x", "\n"}]
Texts == UNION { TextsOfLen(n) : n \in 0..MaxTextLen }

Response(cands, t) == [kind |-> "response", candidates |-> cands, text |-> t]
StopCandidateException == [kind |-> "stop_exception", candidates |-> <<>>, text |-> <<>>]
ServiceFault == [kind |-> "fault", candidates |-> <<>>, text |-> <<>>]
NoOutcome == [kind |-> "none", candidates |-> <<>>, text |-> <<>>]

\* Everything chat.send_message can do: answer (with no candidate, or a first
\* candidate whose finish_reason is RECITATION or STOP), raise
\* StopCandidateException, or raise anything else.
Outcomes ==
    { Response(c, t) : c \in {<<>>, <<"STOP">>}, t \in Texts }
      \cup { Response(<<"RECITATION">>, <<>>), StopCandidateException, ServiceFault }

-----------------------------------------------------------------------------
(* Files. *)

NoFile == [exists |-> FALSE, rows |-> <<>>]
File(rows) == [exists |-> TRUE, rows |-> rows]

NoResult == [kind |-> "none", val |-> PyNone]
Returned(v) == [kind |-> "returned", val |-> v]
Raised == [kind |-> "raised", val |-> PyNone]

Snapshot == [store |-> store, writes |-> writes, calls |-> calls]

-----------------------------------------------------------------------------
(* The agent. *)

\* generate_onboarding_plan without its except clause: the generation-stopped
\* exception escapes to the caller.
GenerateOnboardingPlanNoExcept(o) ==
    IF o.kind = "response"
    THEN IF o.candidates # <<>> /\ Head(o.candidates) = "RECITATION"
         THEN Returned(PyNone)
         ELSE Returned(PyStr(o.text))
    ELSE Raised

\* OnboardMateAgent.generate_onboarding_plan, lines 52-62: what the method
\* hands back for each thing chat.send_message can do.
GenerateOnboardingPlan(o) ==
    IF o.kind = "response"
    THEN IF o.candidates # <<>> /\ Head(o.candidates) = "RECITATION"
         THEN Returned(PyNone)
         ELSE Returned(PyStr(o.text))
    ELSE IF o.kind = "stop_exception"
         THEN Returned(PyNone)
         ELSE Raised

\* OnboardMateAgent.provide_knowledge_assistance, lines 68-71: no try, no
\* inspection of the response.
ProvideKnowledgeAssistance(o) ==
    IF o.kind = "response" THEN Returned(PyStr(o.text)) ELSE Raised

-----------------------------------------------------------------------------
(* The helpers of main(). *)

\* The guard of line 151.
AnyRequired(w) ==
    \/ Truthy(PyStr(Strip(w.name)))
    \/ Truthy(PyStr(Strip(w.role)))
    \/ Truthy(PyStr(Strip(w.department)))
    \/ DateTruthy(w.start_date)
    \/ Truthy(PyStr(Strip(w.previous_experience)))
    \/ Truthy(PyStr(Strip(w.goals)))

\* Lines 152-159: the texts unstripped, the date formatted.
EmployeeData(w) ==
    [name |-> w.name, role |-> w.role, department |-> w.department,
     start_date |-> Strftime(w.start_date),
     previous_experience |-> w.previous_experience, goals |-> w.goals]

NoData ==
    [name |-> <<>>, role |-> <<>>, department |-> <<>>, start_date |-> "",
     previous_experience |-> <<>>, goals |-> <<>>]

\* save_to_excel, lines 88-93: the frame that will be written, given what
\* os.path.exists answered and what pd.read_excel loaded.
BuildFrame(exists, loaded, data) ==
    IF exists THEN loaded \o <<data>> ELSE <<data>>

\* A write that appends the frame's last row to whatever the file holds now.
ToExcelAppending(current, df) == File(current.rows \o <<df[Len(df)]>>)

\* save_to_excel, line 95: df.to_excel replaces the whole file.
ToExcel(current, df) == File(df)

\* generate_pdf, lines 106-110: one cell per piece of the split.
RenderPdf(content) == File(Split(content))

-----------------------------------------------------------------------------
(* One session. *)

\* main() without the return of line 130: the error is shown and the run goes on.
MainNoReturn ==
    /\ pc = "start"
    /\ banner' = IF apiKey = "" THEN "config_error" ELSE "none"
    /\ agent' = TRUE
    /\ pc' = "idle"
    /\ UNCHANGED <<apiKey, action, form, employee_data, query, outcome, result,
                   fault, store, pdf, download, writes, calls, presses, pre, th>>

\* Lines 126-136: without the key main() returns before the agent and the
\* tabs exist.
Main ==
    /\ pc = "start"
    /\ IF apiKey = ""
       THEN /\ banner' = "config_error"
            /\ pc' = "stopped"
            /\ agent' = FALSE
       ELSE /\ agent' = TRUE
            /\ pc' = "idle"
            /\ banner' = "none"
    /\ UNCHANGED <<apiKey, action, form, employee_data, query, outcome, result,
                   fault, store, pdf, download, writes, calls, presses, pre, th>>

\* Lines 143-159 and 181-182: the button is pressed with the widgets holding w.
PressGenerate(w) ==
    /\ pc = "idle"
    /\ presses < MaxPresses
    /\ presses' = presses + 1
    /\ action' = "plan"
    /\ form' = w
    /\ pre' = Snapshot
    /\ outcome' = NoOutcome
    /\ result' = NoResult
    /\ fault' = "none"
    /\ download' = FALSE
    /\ IF AnyRequired(w)
       THEN /\ employee_data' = EmployeeData(w)
            /\ banner' = "spinner"
            /\ pc' = "plan_send"
       ELSE /\ employee_data' = NoData
            /\ banner' = "warning"
            /\ pc' = "idle"
    /\ UNCHANGED <<apiKey, agent, query, store, pdf, writes, calls, th>>

\* Lines 161 and 50-62: the one chat.send_message of the plan path.
SendPlan(o) ==
    /\ pc = "plan_send"
    /\ calls' = calls + 1
    /\ outcome' = o
    /\ result' = GenerateOnboardingPlan(o)
    /\ IF result'.kind = "raised"
       THEN /\ fault' = "generate_onboarding_plan"
            /\ banner' = "traceback"
            /\ pc' = "idle"
       ELSE /\ pc' = "plan_result"
            /\ UNCHANGED <<fault, banner>>
    /\ UNCHANGED <<apiKey, agent, action, form, employee_data, query, store, pdf,
                   download, writes, presses, pre, th>>

\* Line 162 without the test: whatever came back is shown, saved and rendered.
HandlePlanNoTest ==
    /\ pc = "plan_result"
    /\ banner' = "plan"
    /\ pc' = "save"
    /\ UNCHANGED <<apiKey, agent, action, form, employee_data, query, outcome,
                   result, fault, store, pdf, download, writes, calls, presses,
                   pre, th>>

\* Lines 179-180 sending the prompt again instead of giving up.
HandlePlanRetry ==
    /\ pc = "plan_result"
    /\ IF Truthy(result.val)
       THEN /\ banner' = "plan"
            /\ pc' = "save"
       ELSE /\ banner' = "spinner"
            /\ pc' = "plan_send"
    /\ UNCHANGED <<apiKey, agent, action, form, employee_data, query, outcome,
                   result, fault, store, pdf, download, writes, calls, presses,
                   pre, th>>

\* Lines 162-164 and 179-180.
HandlePlan ==
    /\ pc = "plan_result"
    /\ IF Truthy(result.val)
       THEN /\ banner' = "plan"
            /\ pc' = "save"
       ELSE /\ banner' = "error"
            /\ pc' = "idle"
    /\ UNCHANGED <<apiKey, agent, action, form, employee_data, query, outcome,
                   result, fault, store, pdf, download, writes, calls, presses,
                   pre, th>>

\* Lines 167-168 and 84-95; ok = FALSE is pandas raising (file locked,
\* unreadable, no space), which ends the run of main().
SaveToExcel(ok) ==
    /\ pc = "save"
    /\ IF ok
       THEN /\ store' = ToExcel(store, BuildFrame(store.exists, store.rows, employee_data))
            /\ writes' = [writes EXCEPT !.excel = @ + 1]
            /\ banner' = "saved"
            /\ pc' = "pdf"
            /\ UNCHANGED fault
       ELSE /\ fault' = "save_to_excel"
            /\ banner' = "traceback"
            /\ pc' = "idle"
            /\ UNCHANGED <<store, writes>>
    /\ UNCHANGED <<apiKey, agent, action, form, employee_data, query, outcome,
                   result, pdf, download, calls, presses, pre, th>>

\* generate_pdf whose failure takes the row just saved out of the store again.
GeneratePdfRollback(ok) ==
    /\ pc = "pdf"
    /\ IF ok
       THEN /\ pdf' = RenderPdf(result.val.v)
            /\ writes' = [writes EXCEPT !.pdf = @ + 1]
            /\ pc' = "download"
            /\ UNCHANGED <<fault, banner, store>>
       ELSE /\ fault' = "generate_pdf"
            /\ banner' = "traceback"
            /\ pc' = "idle"
            /\ store' = pre.store
            /\ UNCHANGED <<pdf, writes>>
    /\ UNCHANGED <<apiKey, agent, action, form, employee_data, query, outcome,
                   result, download, calls, presses, pre, th>>

\* Lines 171 and 97-111; ok = FALSE is fpdf raising (a character outside
\* latin-1, an unwritable file).
GeneratePdf(ok) ==
    /\ pc = "pdf"
    /\ IF ok
       THEN /\ pdf' = RenderPdf(result.val.v)
            /\ writes' = [writes EXCEPT !.pdf = @ + 1]
            /\ pc' = "download"
            /\ UNCHANGED <<fault, banner>>
       ELSE /\ fault' = "generate_pdf"
            /\ banner' = "traceback"
            /\ pc' = "idle"
            /\ UNCHANGED <<pdf, writes>>
    /\ UNCHANGED <<apiKey, agent, action, form, employee_data, query, outcome,
                   result, store, download, calls, presses, pre, th>>

\* Lines 172-178.
OfferDownload ==
    /\ pc = "download"
    /\ download' = TRUE
    /\ pc' = "idle"
    /\ UNCHANGED <<apiKey, agent, action, banner, form, employee_data, query,
                   outcome, result, fault, store, pdf, writes, calls, presses,
                   pre, th>>

\* Line 211 testing the query without strip().
PressAssistNoStrip(q) ==
    /\ pc = "idle"
    /\ presses < MaxPresses
    /\ presses' = presses + 1
    /\ action' = "assist"
    /\ query' = q
    /\ pre' = Snapshot
    /\ outcome' = NoOutcome
    /\ result' = NoResult
    /\ fault' = "none"
    /\ download' = FALSE
    /\ employee_data' = NoData
    /\ IF Truthy(PyStr(q))
       THEN /\ banner' = "spinner"
            /\ pc' = "know_send"
       ELSE /\ banner' = "warning"
            /\ pc' = "idle"
    /\ UNCHANGED <<apiKey, agent, form, store, pdf, writes, calls, th>>

\* Lines 208-211 and 216-217: the button is pressed with the query widget
\* holding q.
PressAssist(q) ==
    /\ pc = "idle"
    /\ presses < MaxPresses
    /\ presses' = presses + 1
    /\ action' = "assist"
    /\ query' = q
    /\ pre' = Snapshot
    /\ outcome' = NoOutcome
    /\ result' = NoResult
    /\ fault' = "none"
    /\ download' = FALSE
    /\ employee_data' = NoData
    /\ IF Truthy(PyStr(Strip(q)))
       THEN /\ banner' = "spinner"
            /\ pc' = "know_send"
       ELSE /\ banner' = "warning"
            /\ pc' = "idle"
    /\ UNCHANGED <<apiKey, agent, form, store, pdf, writes, calls, th>>

\* The knowledge path keeping a record of each answered query in the store.
SendKnowledgeRecording(o) ==
    /\ pc = "know_send"
    /\ calls' = calls + 1
    /\ outcome' = o
    /\ result' = ProvideKnowledgeAssistance(o)
    /\ IF result'.kind = "raised"
       THEN /\ fault' = "provide_knowledge_assistance"
            /\ banner' = "traceback"
            /\ UNCHANGED <<store, writes>>
       ELSE /\ banner' = "answer"
            /\ store' = ToExcel(store, BuildFrame(store.exists, store.rows, NoData))
            /\ writes' = [writes EXCEPT !.excel = @ + 1]
            /\ UNCHANGED fault
    /\ pc' = "idle"
    /\ UNCHANGED <<apiKey, agent, action, form, employee_data, query, pdf,
                   download, presses, pre, th>>

\* Lines 213-215 and 68-71.
SendKnowledge(o) ==
    /\ pc = "know_send"
    /\ calls' = calls + 1
    /\ outcome' = o
    /\ result' = ProvideKnowledgeAssistance(o)
    /\ IF result'.kind = "raised"
       THEN /\ fault' = "provide_knowledge_assistance"
            /\ banner' = "traceback"
       ELSE /\ banner' = "answer"
            /\ UNCHANGED fault
    /\ pc' = "idle"
    /\ UNCHANGED <<apiKey, agent, action, form, employee_data, query, store, pdf,
                   download, writes, presses, pre, th>>

InitialStores == { NoFile, File(<<>>), File(<<EmployeeData(Widgets(<<"A">>, <<"B">>, <<"C">>, Today, <<"D">>, <<"E">>))>>) }

Threads == {1, 2}

NoThreads ==
    [t \in Threads |->
        [pc |-> "off", data |-> NoData, exists |-> FALSE, loaded |-> <<>>, df |-> <<>>]]

Init ==
    /\ apiKey \in {"", "key"}
    /\ agent = FALSE
    /\ pc = "start"
    /\ action = "none"
    /\ banner = "none"
    /\ form = Widgets(<<>>, <<>>, <<>>, Today, <<>>, <<>>)
    /\ employee_data = NoData
    /\ query = <<>>
    /\ outcome = NoOutcome
    /\ result = NoResult
    /\ fault = "none"
    /\ store \in InitialStores
    /\ pdf = NoFile
    /\ download = FALSE
    /\ writes = [excel |-> 0, pdf |-> 0]
    /\ calls = 0
    /\ presses = 0
    /\ pre = [store |-> store, writes |-> writes, calls |-> calls]
    /\ th = NoThreads

Next ==
    \/ Main
    \/ \E w \in FormInputs : PressGenerate(w)
    \/ \E o \in Outcomes : SendPlan(o)
    \/ HandlePlan
    \/ \E ok \in BOOLEAN : SaveToExcel(ok)
    \/ \E ok \in BOOLEAN : GeneratePdf(ok)
    \/ OfferDownload
    \/ \E q \in Queries : PressAssist(q)
    \/ \E o \in Outcomes : SendKnowledge(o)

Spec == Init /\ [][Next]_vars

-----------------------------------------------------------------------------
(* Two sessions inside save_to_excel at once.  Each has had its plan       *)
(* generated (line 162 was true) and calls save_to_excel(employee_data)    *)
(* at line 167; the file system orders the single calls on the file.       *)

\* Line 167: the call, with the session's own employee_data.
ThreadEnter(t, w) ==
    /\ th[t].pc = "off"
    /\ th' = [th EXCEPT ![t].pc = "exists", ![t].data = EmployeeData(w)]
    /\ UNCHANGED <<session, store>>

\* Line 88: os.path.exists(file_path).
ThreadExists(t) ==
    /\ th[t].pc = "exists"
    /\ th' = [th EXCEPT ![t].pc = "load", ![t].exists = store.exists]
    /\ UNCHANGED <<session, store>>

\* Lines 89-93: pd.read_excel and pd.concat, or the one-row frame.
ThreadLoad(t) ==
    /\ th[t].pc = "load"
    /\ LET loaded == IF th[t].exists THEN store.rows ELSE <<>>
       IN th' = [th EXCEPT ![t].pc = "write",
                           ![t].loaded = loaded,
                           ![t].df = BuildFrame(th[t].exists, loaded, th[t].data)]
    /\ UNCHANGED <<session, store>>

\* Line 95: df.to_excel(file_path, index=False).
ThreadWrite(t) ==
    /\ th[t].pc = "write"
    /\ store' = ToExcel(store, th[t].df)
    /\ th' = [th EXCEPT ![t].pc = "done"]
    /\ UNCHANGED session

InitConc ==
    /\ apiKey = "key"
    /\ agent = TRUE
    /\ pc = "idle"
    /\ action = "plan"
    /\ banner = "plan"
    /\ form = Widgets(<<>>, <<>>, <<>>, Today, <<>>, <<>>)
    /\ employee_data = NoData
    /\ query = <<>>
    /\ outcome = NoOutcome
    /\ result = NoResult
    /\ fault = "none"
    /\ store \in InitialStores
    /\ pdf = NoFile
    /\ download = FALSE
    /\ writes = [excel |-> 0, pdf |-> 0]
    /\ calls = 0
    /\ presses = 0
    /\ pre = [store |-> store, writes |-> writes, calls |-> calls]
    /\ th = NoThreads

NextConc ==
    \/ \E t \in Threads, w \in FormInputs : ThreadEnter(t, w)
    \/ \E t \in Threads : ThreadExists(t)
    \/ \E t \in Threads : ThreadLoad(t)
    \/ \E t \in Threads : ThreadWrite(t)

SpecConc == InitConc /\ [][NextConc]_vars

-----------------------------------------------------------------------------
(* The properties. *)

\* The remote service withheld the answer: a first candidate stopped for
\* recitation, or the generation-stopped exception.
Filtered(o) ==
    \/ o.kind = "stop_exception"
    \/ o.kind = "response" /\ Len(o.candidates) > 0 /\ o.candidates[1] = "RECITATION"

LineBreaks(t) == Cardinality({i \in 1..Len(t) : t[i] = "\n"})

Blank(t) == \A i \in 1..Len(t) : t[i] \in {" ", "\n"}

RowsBefore == pre.store.rows

\* C1: the store is rewritten and a document is written only in a plan
\* submission whose generation returned a text; a submission whose generation
\* was filtered or failed with a fault leaves the store and both write counts
\* as they were at the press and offers no download.
C1_WritesOnlyAfterSuccess ==
    /\ (store # pre.store \/ writes # pre.writes) =>
          /\ action = "plan"
          /\ result.kind = "returned"
          /\ result.val.type = "str"
    /\ (action = "plan" /\ (Filtered(outcome) \/ outcome.kind = "fault")) =>
          /\ store = pre.store
          /\ writes = pre.writes
          /\ ~download
          /\ pc \notin {"save", "pdf", "download"}

C1_Witness ==
    /\ action = "plan"
    /\ outcome = Response(<<"RECITATION">>, <<>>)
    /\ pc = "idle"
    /\ banner = "error"
    /\ store = pre.store

\* C2: every plan submission whose generation returned a text (the empty text
\* included) and that ran to its end without an I/O fault has added exactly
\* one row to the store and written exactly one document, of as many lines as
\* the text has line breaks, plus one.
C2_SuccessYieldsBoth ==
    (/\ action = "plan"
     /\ result.kind = "returned"
     /\ result.val.type = "str"
     /\ pc = "idle"
     /\ fault = "none") =>
        /\ Len(store.rows) = Len(RowsBefore) + 1
        /\ writes.excel = pre.writes.excel + 1
        /\ writes.pdf = pre.writes.pdf + 1
        /\ pdf.exists
        /\ Len(pdf.rows) = LineBreaks(result.val.v) + 1

\* C2 for the texts line 162 lets through: the same, for every returned text
\* that is not empty.
C2_NonEmptySuccessYieldsBoth ==
    (/\ action = "plan"
     /\ result.kind = "returned"
     /\ result.val.type = "str"
     /\ result.val.v # <<>>
     /\ pc = "idle"
     /\ fault = "none") =>
        /\ store.rows = RowsBefore \o <<employee_data>>
        /\ writes.excel = pre.writes.excel + 1
        /\ writes.pdf = pre.writes.pdf + 1
        /\ pdf.exists
        /\ Len(pdf.rows) = LineBreaks(result.val.v) + 1
        /\ download

C2_NonEmptyWitness ==
    /\ action = "plan"
    /\ result = Returned(PyStr(<<"x", "\n">>))
    /\ pc = "idle"
    /\ fault = "none"
    /\ Len(pdf.rows) = 2

\* C3: generate_onboarding_plan answers every remote outcome in exactly one
\* of three ways: a recitation stop and the generation-stopped exception both
\* come back as the value None and no exception; any other fault is raised to
\* the caller; any other response comes back as its text.
C3_Classification ==
    (action = "plan" /\ outcome.kind # "none") =>
        /\ Filtered(outcome) =>
              /\ result = Returned(PyNone)
              /\ fault = "none"
        /\ outcome.kind = "fault" =>
              /\ result.kind = "raised"
              /\ result # Returned(PyNone)
              /\ fault = "generate_onboarding_plan"
        /\ (~Filtered(outcome) /\ outcome.kind = "response") =>
              /\ result = Returned(PyStr(outcome.text))
              /\ result # Returned(PyNone)

C3_Witness ==
    /\ action = "plan"
    /\ outcome = StopCandidateException
    /\ result = Returned(PyNone)
    /\ fault = "none"

\* C4: from the press of Get Assistance on, whatever the query and whatever
\* the service does, the store and the write counts of both files are what
\* they were at the press.
C4_KnowledgeLeavesFilesAlone ==
    action = "assist" =>
        /\ store = pre.store
        /\ Len(store.rows) = Len(RowsBefore)
        /\ writes = pre.writes

C4_Witness ==
    /\ action = "assist"
    /\ pc = "idle"
    /\ result.kind = "returned"
    /\ calls = pre.calls + 1
    /\ store.exists

\* C5: a plan submission in which the user populated none of the fields (the
\* five texts blank; the date widget always holds a date) gets the validation
\* warning, with no remote call and the store and the document untouched.
C5_GuardFires ==
    (/\ action = "plan"
     /\ Blank(form.name) /\ Blank(form.role) /\ Blank(form.department)
     /\ Blank(form.previous_experience) /\ Blank(form.goals)) =>
        /\ banner = "warning"
        /\ pc = "idle"
        /\ calls = pre.calls
        /\ store = pre.store
        /\ writes = pre.writes

\* C6: a knowledge submission whose query is empty or only whitespace gets
\* the validation warning and no message is sent.
C6_EmptyQueryWarns ==
    (action = "assist" /\ Blank(query)) =>
        /\ banner = "warning"
        /\ pc = "idle"
        /\ calls = pre.calls
        /\ outcome = NoOutcome
        /\ result = NoResult

C6_Witness ==
    /\ action = "assist"
    /\ query = <<" ", "\n">>
    /\ banner = "warning"
    /\ calls = pre.calls

\* C7: a press sends at most one message; a press that passed validation and
\* is past its send has sent exactly one and has exactly one result, also
\* after a filtered result or a fault; a press that got the warning sent none;
\* and there are never more messages than presses.
C7_OneMessagePerPress ==
    /\ calls <= presses
    /\ calls - pre.calls \in {0, 1}
    /\ pc \in {"plan_send", "know_send"} => calls = pre.calls
    /\ banner = "warning" => calls = pre.calls /\ result = NoResult
    /\ (action # "none" /\ banner # "warning" /\ pc \notin {"plan_send", "know_send"}) =>
          /\ calls = pre.calls + 1
          /\ result.kind \in {"returned", "raised"}
          /\ outcome.kind # "none"

C7_Witness ==
    /\ action = "plan"
    /\ Filtered(outcome)
    /\ pc = "idle"
    /\ banner = "error"
    /\ calls = pre.calls + 1
    /\ result = Returned(PyNone)

\* C8: with no credential in the environment the run ends at the error: the
\* agent is never constructed, no button is ever pressed, no message is sent
\* and neither file is written.
C8_NoCredentialNoService ==
    apiKey = "" =>
        /\ ~agent
        /\ pc \in {"start", "stopped"}
        /\ action = "none"
        /\ presses = 0
        /\ calls = 0
        /\ store = pre.store
        /\ writes = [excel |-> 0, pdf |-> 0]
        /\ pdf = NoFile

C8_Witness ==
    /\ apiKey = ""
    /\ pc = "stopped"
    /\ banner = "config_error"

\* C9: when both sessions have left save_to_excel, either they loaded the same
\* contents, and then the store holds those contents and the row of one
\* session only (one new row, the other's lost), or one loaded what the other
\* had written, and then the store holds both rows after its old contents.
C9_LostUpdate ==
    (th[1].pc = "done" /\ th[2].pc = "done") =>
        IF th[1].loaded = th[2].loaded
        THEN /\ th[1].loaded = RowsBefore
             /\ store.rows \in { RowsBefore \o <<th[1].data>>, RowsBefore \o <<th[2].data>> }
             /\ Len(store.rows) = Len(RowsBefore) + 1
        ELSE /\ store.rows \in { RowsBefore \o <<th[1].data, th[2].data>>,
                                RowsBefore \o <<th[2].data, th[1].data>> }
             /\ Len(store.rows) = Len(RowsBefore) + 2

C9_Witness ==
    /\ th[1].pc = "done"
    /\ th[2].pc = "done"
    /\ th[1].data # th[2].data
    /\ th[1].loaded = th[2].loaded
    /\ store.rows = RowsBefore \o <<th[1].data>>

\* C10: the row is in the store before the document is rendered and is never
\* taken out again: while the document is being rendered or offered the store
\* already holds the new row; a document is written only after the store was;
\* a failure of save_to_excel leaves both files as they were; a failure of
\* generate_pdf leaves the new row in the store and no document written.
C10_SaveBeforePdfNoRollback ==
    /\ pc \in {"pdf", "download"} =>
          /\ store.rows = RowsBefore \o <<employee_data>>
          /\ writes.excel = pre.writes.excel + 1
    /\ writes.pdf # pre.writes.pdf => writes.excel = pre.writes.excel + 1
    /\ fault = "save_to_excel" =>
          /\ store = pre.store
          /\ writes = pre.writes
          /\ ~download
    /\ fault = "generate_pdf" =>
          /\ store.rows = RowsBefore \o <<employee_data>>
          /\ writes.excel = pre.writes.excel + 1
          /\ writes.pdf = pre.writes.pdf
          /\ ~download

C10_Witness ==
    /\ fault = "generate_pdf"
    /\ pc = "idle"
    /\ Len(store.rows) = Len(RowsBefore) + 1
    /\ writes.pdf = pre.writes.pdf

====
